---- MODULE Spec2Model ----
(***************************************************************************)
(* A model of the r/frames messaging helper (src/index.js): the trusted    *)
(* origin list and its compiled matcher, the namespace list and its        *)
(* compiled matcher, the proxy table, the transport 'message' handler and  *)
(* the local event listeners made by receiveMessage / receiveMessageOnce.  *)
(*                                                                         *)
(* Strings that the code inspects character by character (origins,         *)
(* namespaces, message types) are sequences of one-character strings.      *)
(* A compiled RegExp is the sequence of its alternatives, each a sequence  *)
(* of atoms, and RegExpTest runs them as the RegExp engine does.           *)
(***************************************************************************)
EXTENDS Integers, Sequences, FiniteSets, TLC

(***************************************************************************)
(* Bounds of the model.                                                    *)
(***************************************************************************)
MaxTargets == 2
MaxHistory == 2
MaxListeners == 2
MaxCalls == 2

(***************************************************************************)
(* Characters and strings.                                                 *)
(***************************************************************************)
RECURSIVE Join(_, _)
\* Array.prototype.join: the elements separated by sep.
Join(list, sep) ==
  IF list = <<>> THEN <<>>
  ELSE IF Len(list) = 1 THEN list[1]
  ELSE list[1] \o sep \o Join(Tail(list), sep)

RECURSIVE SplitAll(_, _)
\* String.prototype.split(sep) for a one-character separator: all pieces.
SplitAll(s, sep) ==
  IF \A i \in 1..Len(s) : s[i] # sep THEN <<s>>
  ELSE LET i == CHOOSE k \in 1..Len(s) :
                  s[k] = sep /\ \A j \in 1..(k - 1) : s[j] # sep
       IN <<SubSeq(s, 1, i - 1)>> \o SplitAll(SubSeq(s, i + 1, Len(s)), sep)

\* String.prototype.split(sep, limit): the first `limit` pieces.
Split(s, sep, limit) ==
  LET all == SplitAll(s, sep)
  IN IF Len(all) <= limit THEN all ELSE SubSeq(all, 1, limit)

\* Array.prototype.indexOf, 0 when absent (positions are 1-based here).
IndexOf(list, x) ==
  IF \E i \in 1..Len(list) : list[i] = x
  THEN CHOOSE i \in 1..Len(list) : list[i] = x /\ \A j \in 1..(i - 1) : list[j] # x
  ELSE 0

\* Array.prototype.splice(index, 1).
Splice1(list, i) == SubSeq(list, 1, i - 1) \o SubSeq(list, i + 1, Len(list))

\* The lower-case form of a character, for the RegExp 'i' flag.
Lower(c) ==
  CASE c = "A" -> "a"
    [] c = "B" -> "b"
    [] c = "H" -> "h"
    [] c = "I" -> "i"
    [] c = "O" -> "o"
    [] c = "P" -> "p"
    [] c = "S" -> "s"
    [] c = "T" -> "t"
    [] OTHER -> c

(***************************************************************************)
(* Regular expressions.                                                    *)
(***************************************************************************)
Atom(k, c) == [k |-> k, c |-> c]
Lit(c) == Atom("lit", c)

RECURSIVE ParsePattern(_)
\* The atoms of a piece of RegExp source that was interpolated unescaped:
\* ".*" is any run of characters, "." any one character, "\x" the
\* character x, anything else itself.
ParsePattern(p) ==
  IF p = <<>> THEN <<>>
  ELSE IF Head(p) = "." /\ Len(p) >= 2 /\ p[2] = "*"
    THEN <<Atom("star", "")>> \o ParsePattern(SubSeq(p, 3, Len(p)))
  ELSE IF Head(p) = "."
    THEN <<Atom("any", "")>> \o ParsePattern(Tail(p))
  ELSE IF Head(p) = "\\" /\ Len(p) >= 2
    THEN <<Lit(p[2])>> \o ParsePattern(SubSeq(p, 3, Len(p)))
  ELSE <<Lit(Head(p))>> \o ParsePattern(Tail(p))

RECURSIVE MatchAt(_, _, _, _, _)
\* Do the atoms from the k-th on match s from position i on (backtracking
\* as the engine does)?
MatchAt(atoms, k, s, i, ci) ==
  IF k > Len(atoms) THEN TRUE
  ELSE LET a == atoms[k]
           same == i <= Len(s) /\
                   (IF ci THEN Lower(s[i]) = Lower(a.c) ELSE s[i] = a.c)
       IN CASE a.k = "lit" -> same /\ MatchAt(atoms, k + 1, s, i + 1, ci)
            [] a.k = "bol" -> i = 1 /\ MatchAt(atoms, k + 1, s, i, ci)
            [] a.k = "eol" -> i = Len(s) + 1 /\ MatchAt(atoms, k + 1, s, i, ci)
            [] a.k = "any" -> i <= Len(s) /\ MatchAt(atoms, k + 1, s, i + 1, ci)
            [] a.k = "opt" -> \/ same /\ MatchAt(atoms, k + 1, s, i + 1, ci)
                              \/ MatchAt(atoms, k + 1, s, i, ci)
            [] a.k = "star" -> \E j \in i..(Len(s) + 1) : MatchAt(atoms, k + 1, s, j, ci)
            [] OTHER -> FALSE

\* RegExp.prototype.test: some alternative matches at some position.
RegExpTest(re, s) ==
  \E n \in 1..Len(re.alts) : \E i \in 1..(Len(s) + 1) :
    MatchAt(re.alts[n], 1, s, i, re.ignoreCase)

(***************************************************************************)
(* Program constants.                                                      *)
(***************************************************************************)
ALLOW_WILDCARD == <<".", "*">>
DEFAULT_MESSAGE_NAMESPACE == <<".", "p", "o", "s", "t", "M", "e", "s", "s", "a", "g", "e">>
DEFAULT_POSTMESSAGE_OPTIONS == [targetOrigin |-> "*"]
\* /\..+$/
RE_HAS_NAMESPACE ==
  [alts |-> <<(<<Lit("."), Atom("any", ""), Atom("star", ""), Atom("eol", "")>>)>>,
   ignoreCase |-> FALSE]
\* /\*/
RE_WILDCARD == [alts |-> <<(<<Lit("*")>>)>>, ignoreCase |-> FALSE]
\* The type of the transport event, addEventListener('message', ...).
MESSAGE == <<"m", "e", "s", "s", "a", "g", "e">>
\* The literal the origin check compares with, e.origin !== 'null'.
NULL_ORIGIN == <<"n", "u", "l", "l">>

\* new RegExp(`\\.(?:${namespaces.join('|')})$`): the "|" of the join are
\* the alternatives of the group.
compileNamespaceRegExp(namespaces) ==
  LET pieces == SplitAll(Join(namespaces, <<"|">>), "|")
  IN [alts |-> [k \in 1..Len(pieces) |->
                  <<Lit(".")>> \o ParsePattern(pieces[k]) \o <<Atom("eol", "")>>],
      ignoreCase |-> FALSE]

\* ^http(s)?:\/\/ , the head of the origin pattern.
OriginHead ==
  <<Atom("bol", ""), Lit("h"), Lit("t"), Lit("t"), Lit("p"), Atom("opt", "s"),
    Lit(":"), Lit("/"), Lit("/")>>

\* new RegExp(`^http(s)?:\\/\\/${origins.join('|')}$`, 'i'): no group
\* encloses the join, so its "|" are alternations of the whole pattern; the
\* head belongs to the first alternative only and the "$" to the last only.
compileOriginRegExp(origins) ==
  LET pieces == SplitAll(Join(origins, <<"|">>), "|")
      n == Len(pieces)
  IN [alts |-> [k \in 1..n |->
                  (IF k = 1 THEN OriginHead ELSE <<>>)
                  \o ParsePattern(pieces[k])
                  \o (IF k = n THEN <<Atom("eol", "")>> ELSE <<>>)],
      ignoreCase |-> TRUE]

\* /\*/.test(origin)
isWildcard(origin) == RegExpTest(RE_WILDCARD, origin)

(***************************************************************************)
(* JavaScript values and JSON.  An options object is a record of its two   *)
(* properties, "undefined" standing for a missing one; def says whether    *)
(* the value is an object, null or undefined.  JSON text is the sequence   *)
(* of the members it spells out.                                           *)
(***************************************************************************)
UNDEFINED == "undefined"
Options(def, targetOrigin, extra) ==
  [def |-> def, targetOrigin |-> targetOrigin, extra |-> extra]
NoOptions == Options(UNDEFINED, UNDEFINED, UNDEFINED)
EmptyObject == Options("object", UNDEFINED, UNDEFINED)

Member(key, kind, chars, atom, obj) ==
  [key |-> key, kind |-> kind, chars |-> chars, atom |-> atom, obj |-> obj]
JUndefined == Member("", UNDEFINED, <<>>, UNDEFINED, <<>>)

\* JSON.stringify of an options object: the properties it has.
StringifyOptions(o) ==
  (IF o.targetOrigin # UNDEFINED
     THEN <<[key |-> "targetOrigin", atom |-> o.targetOrigin]>> ELSE <<>>)
  \o (IF o.extra # UNDEFINED THEN <<[key |-> "extra", atom |-> o.extra]>> ELSE <<>>)

\* JSON.stringify({ type, data, defaultedOptions }): the shorthand properties
\* are written under the names of the variables; a property whose value is
\* undefined is left out.
StringifyEnvelope(type, data, defaultedOptions) ==
  [ok |-> TRUE,
   members |->
     <<Member("type", "chars", type, "", <<>>)>>
     \o (IF data # UNDEFINED THEN <<Member("data", "atom", <<>>, data, <<>>)>> ELSE <<>>)
     \o (IF defaultedOptions.def = "object"
           THEN <<Member("defaultedOptions", "obj", <<>>, "",
                         StringifyOptions(defaultedOptions))>>
           ELSE IF defaultedOptions.def = "null"
           THEN <<Member("defaultedOptions", "null", <<>>, "null", <<>>)>>
           ELSE <<>>)]

\* Text that is not JSON.
Malformed == [ok |-> FALSE, members |-> <<>>]

\* message.<key> of the object JSON.parse returns: the member written under
\* that key, undefined when there is none.
Prop(text, key) ==
  IF \E i \in 1..Len(text.members) : text.members[i].key = key
  THEN text.members[CHOOSE i \in 1..Len(text.members) : text.members[i].key = key]
  ELSE JUndefined

\* A property of a parsed object member.
ObjProp(m, key) ==
  IF \E i \in 1..Len(m.obj) : m.obj[i].key = key
  THEN m.obj[CHOOSE i \in 1..Len(m.obj) : m.obj[i].key = key].atom
  ELSE UNDEFINED

\* The options value a parsed member stands for.
AsOptions(m) ==
  IF m.kind = "obj" THEN Options("object", ObjProp(m, "targetOrigin"), ObjProp(m, "extra"))
  ELSE IF m.kind = "null" THEN Options("null", UNDEFINED, UNDEFINED)
  ELSE NoOptions

(***************************************************************************)
(* postMessage(target, type, data, options = {}).  The result is what the  *)
(* call does: the text and target origin handed to target.postMessage, the *)
(* caller's options object afterwards, and the error thrown, if any.       *)
(***************************************************************************)
\* The default namespace appended whatever the type is.
NormalizeType_Always(type) == type \o DEFAULT_MESSAGE_NAMESPACE

\* type += DEFAULT_MESSAGE_NAMESPACE unless RE_HAS_NAMESPACE matches.
NormalizeType(type) ==
  IF ~RegExpTest(RE_HAS_NAMESPACE, type) THEN type \o DEFAULT_MESSAGE_NAMESPACE ELSE type

\* postMessage with the defaults under the caller's options: a targetOrigin
\* the caller gave is kept.
postMessage_CallerWins(target, type, data, options) ==
  LET t == NormalizeType(type)
      given == IF options.def = UNDEFINED THEN EmptyObject ELSE options
      defaultedOptions ==
        IF given.targetOrigin = UNDEFINED
          THEN [given EXCEPT !.targetOrigin = DEFAULT_POSTMESSAGE_OPTIONS.targetOrigin]
          ELSE given
  IN IF given.def = "null"
       THEN [thrown |-> "TypeError", sends |-> <<>>, options |-> given]
       ELSE [thrown |-> "",
             sends |-> <<[target |-> target,
                          body |-> StringifyEnvelope(t, data, defaultedOptions),
                          targetOrigin |-> defaultedOptions.targetOrigin]>>,
             options |-> defaultedOptions]

postMessage(target, type, data, options) ==
  LET t == NormalizeType(type)
      \* the default parameter value replaces undefined only
      given == IF options.def = UNDEFINED THEN EmptyObject ELSE options
      \* defaultedOptions is the same object; each default is written to it
      defaultedOptions == [given EXCEPT !.targetOrigin = DEFAULT_POSTMESSAGE_OPTIONS.targetOrigin]
  IN IF given.def = "null"
       THEN [thrown |-> "TypeError", sends |-> <<>>, options |-> given]
       ELSE [thrown |-> "",
             sends |-> <<[target |-> target,
                          body |-> StringifyEnvelope(t, data, defaultedOptions),
                          targetOrigin |-> defaultedOptions.targetOrigin]>>,
             options |-> defaultedOptions]

(***************************************************************************)
(* The state of the module and of the window it runs in.                   *)
(***************************************************************************)
VARIABLES
  allowedOrigins,                \* let allowedOrigins
  postMessageAllowedOriginRegex, \* let postMessageAllowedOriginRegex
  messageNamespaces,             \* const messageNamespaces
  messageNamespacesRegex,        \* let messageNamespacesRegex
  proxies,                       \* const proxies: namespace -> targets
  listening,                     \* let listening
  listeners,                     \* the event listeners of `global`, in order
  scopes,                        \* the closures of the `scoped` functions made so far
  calls,                         \* per subscription, the invocations of the user's callback
  inbound,                       \* the transport event handled last
  emitted,                       \* the local events the last operation dispatched
  sent,                          \* what the last operation handed to target.postMessage
  thrown,                        \* the error the last operation threw, "" if none
  lastOp,                        \* the operation performed last
  history,                       \* the calls that set the module up so far, while few
  build                          \* how the module was built (decides `arguments`)

regVars == <<allowedOrigins, postMessageAllowedOriginRegex, messageNamespaces,
             messageNamespacesRegex, proxies, listening>>
subVars == <<listeners, scopes, calls>>
outVars == <<inbound, emitted, sent, thrown, lastOp, history>>
vars == <<allowedOrigins, postMessageAllowedOriginRegex, messageNamespaces,
          messageNamespacesRegex, proxies, listening, listeners, scopes, calls,
          inbound, emitted, sent, thrown, lastOp, history, build>>

NoEvent == [origin |-> <<>>, data |-> Malformed, source |-> "none"]
\* An operation and its string argument; options and after are the options
\* object a postMessage call was given, before and after the call.
Op(name, arg) ==
  [op |-> name, arg |-> arg, items |-> <<>>, options |-> NoOptions, after |-> NoOptions]
\* The history once it is longer than the model keeps.
Forgotten == <<Op("...", <<>>)>>
Remember(op) ==
  IF history # Forgotten /\ Len(history) < MaxHistory THEN Append(history, op) ELSE Forgotten
\* An API call that delivers nothing: what it leaves of the last delivery.
Called(op) ==
  /\ inbound' = NoEvent
  /\ emitted' = <<>>
  /\ sent' = <<>>
  /\ thrown' = ""
  /\ lastOp' = op
  /\ history' = Remember(op)
NoProxies == [ns \in {} |-> <<>>]
\* Listener functions: 0 is handleReceiveMessage, k > 0 the k-th `scoped`.
HANDLER == 0
MessageListener == [type |-> MESSAGE, fn |-> HANDLER]

\* The builds of the module: a native ES module, the CommonJS build with
\* native arrow functions, the CommonJS build with arrows made functions.
Builds == {"esm", "cjs", "es5"}
Init ==
  /\ build \in Builds
  /\ allowedOrigins = <<ALLOW_WILDCARD>>
  /\ postMessageAllowedOriginRegex = compileOriginRegExp(<<ALLOW_WILDCARD>>)
  /\ messageNamespaces = <<DEFAULT_MESSAGE_NAMESPACE>>
  /\ messageNamespacesRegex = compileNamespaceRegExp(<<DEFAULT_MESSAGE_NAMESPACE>>)
  /\ proxies = NoProxies
  /\ listening = FALSE
  /\ listeners = <<>>
  /\ scopes = <<>>
  /\ calls = <<>>
  /\ inbound = NoEvent
  /\ emitted = <<>>
  /\ sent = <<>>
  /\ thrown = ""
  /\ lastOp = Op("init", <<>>)
  /\ history = <<>>

\* The initial state of the build the package ships.
InitCommonJS == Init /\ build = "es5"

(***************************************************************************)
(* The listener list of `global`.                                          *)
(***************************************************************************)
\* global.addEventListener(type, handler): a listener already in the list
\* is not added again.
addEventListener(list, type, handler) ==
  IF IndexOf(list, [type |-> type, fn |-> handler]) # 0 THEN list
  ELSE Append(list, [type |-> type, fn |-> handler])

\* A removal that takes the last listener when the one asked for is not there.
removeEventListener_SpliceLast(list, type, handler) ==
  LET i == IndexOf(list, [type |-> type, fn |-> handler])
  IN IF i = 0 THEN SubSeq(list, 1, Len(list) - 1) ELSE Splice1(list, i)

\* global.removeEventListener(type, handler): no effect when it is not there.
removeEventListener(list, type, handler) ==
  LET i == IndexOf(list, [type |-> type, fn |-> handler])
  IN IF i = 0 THEN list ELSE Splice1(list, i)

(***************************************************************************)
(* Origins.                                                                *)
(***************************************************************************)
\* The origin list and matcher removePostMessageOrigin(origin) leaves.
RemoveOrigin(st, origin) ==
  LET index == IndexOf(st.allowedOrigins, origin)
  IN IF index # 0
       THEN [allowedOrigins |-> Splice1(st.allowedOrigins, index),
             regex |-> compileOriginRegExp(Splice1(st.allowedOrigins, index))]
       ELSE st

\* addPostMessageOrigin without the removal of the wildcard.
AddOrigin_KeepWildcard(st, origin) ==
  IF isWildcard(origin)
    THEN [st EXCEPT !.allowedOrigins = <<ALLOW_WILDCARD>>]
  ELSE IF IndexOf(st.allowedOrigins, origin) = 0
    THEN LET pushed == Append(st.allowedOrigins, origin)
         IN [allowedOrigins |-> pushed, regex |-> compileOriginRegExp(pushed)]
  ELSE st

\* The origin list and matcher addPostMessageOrigin(origin) leaves.
AddOrigin(st, origin) ==
  IF isWildcard(origin)
    THEN [st EXCEPT !.allowedOrigins = <<ALLOW_WILDCARD>>]
  ELSE IF IndexOf(st.allowedOrigins, origin) = 0
    THEN LET r == RemoveOrigin(st, ALLOW_WILDCARD)
             pushed == Append(r.allowedOrigins, origin)
         IN [allowedOrigins |-> pushed, regex |-> compileOriginRegExp(pushed)]
  ELSE st

OriginState == [allowedOrigins |-> allowedOrigins, regex |-> postMessageAllowedOriginRegex]

removePostMessageOrigin(origin) ==
  /\ allowedOrigins' = RemoveOrigin(OriginState, origin).allowedOrigins
  /\ postMessageAllowedOriginRegex' = RemoveOrigin(OriginState, origin).regex
  /\ Called(Op("removePostMessageOrigin", origin))
  /\ UNCHANGED <<messageNamespaces, messageNamespacesRegex, proxies, listening, subVars, build>>

addPostMessageOrigin(origin) ==
  /\ allowedOrigins' = AddOrigin(OriginState, origin).allowedOrigins
  /\ postMessageAllowedOriginRegex' = AddOrigin(OriginState, origin).regex
  /\ Called(Op("addPostMessageOrigin", origin))
  /\ UNCHANGED <<messageNamespaces, messageNamespacesRegex, proxies, listening, subVars, build>>

(***************************************************************************)
(* Namespaces and the transport handler.                                   *)
(***************************************************************************)
NsState ==
  [messageNamespaces |-> messageNamespaces, regex |-> messageNamespacesRegex,
   listening |-> listening, listeners |-> listeners]

\* Setting the flag without attaching the handler.
Attach_FlagOnly(st) == [st EXCEPT !.listening = TRUE]

\* addEventListener('message', handleReceiveMessage); listening = true;
Attach(st) ==
  [st EXCEPT !.listeners = addEventListener(st.listeners, MESSAGE, HANDLER),
             !.listening = TRUE]

\* Detaching the handler without clearing the flag.
Detach_KeepFlag(st) ==
  [st EXCEPT !.listeners = removeEventListener(st.listeners, MESSAGE, HANDLER)]

\* removeEventListener('message', handleReceiveMessage); listening = false;
Detach(st) ==
  [st EXCEPT !.listeners = removeEventListener(st.listeners, MESSAGE, HANDLER),
             !.listening = FALSE]

\* What listen(namespace) leaves.
Listen(st, namespace) ==
  LET pushed == Append(st.messageNamespaces, namespace)
      st1 == IF IndexOf(st.messageNamespaces, namespace) = 0
               THEN [st EXCEPT !.messageNamespaces = pushed,
                               !.regex = compileNamespaceRegExp(pushed)]
               ELSE st
  IN IF ~st1.listening THEN Attach(st1) ELSE st1

\* stopListening that forgets to recompile the matcher.
StopListening_NoRecompile(st, namespace) ==
  LET index == IndexOf(st.messageNamespaces, namespace)
      spliced == Splice1(st.messageNamespaces, index)
  IN IF index # 0
       THEN IF Len(spliced) # 0
              THEN [st EXCEPT !.messageNamespaces = spliced]
              ELSE Detach([st EXCEPT !.messageNamespaces = spliced])
       ELSE st

\* What stopListening(namespace) leaves.
StopListening(st, namespace) ==
  LET index == IndexOf(st.messageNamespaces, namespace)
      spliced == Splice1(st.messageNamespaces, index)
  IN IF index # 0
       THEN IF Len(spliced) # 0
              THEN [st EXCEPT !.messageNamespaces = spliced,
                              !.regex = compileNamespaceRegExp(spliced)]
              ELSE Detach([st EXCEPT !.messageNamespaces = spliced])
       ELSE st

SetNsState(st) ==
  /\ messageNamespaces' = st.messageNamespaces
  /\ messageNamespacesRegex' = st.regex
  /\ listening' = st.listening
  /\ listeners' = st.listeners

listen(namespace) ==
  /\ SetNsState(Listen(NsState, namespace))
  /\ Called(Op("listen", namespace))
  /\ UNCHANGED <<allowedOrigins, postMessageAllowedOriginRegex, proxies, scopes, calls, build>>

stopListening(namespace) ==
  /\ SetNsState(StopListening(NsState, namespace))
  /\ Called(Op("stopListening", namespace))
  /\ UNCHANGED <<allowedOrigins, postMessageAllowedOriginRegex, proxies, scopes, calls, build>>

\* proxies[namespace], <<>> standing for no entry.
HasProxy(px, namespace) == namespace \in DOMAIN px

\* proxy(namespace, targets); `targets` is an array here, isArray says
\* whether the caller passed an array or a single frame.
proxy(namespace, targets, isArray) ==
  LET arr == IF ~isArray THEN <<targets[1]>> ELSE targets
      merged == IF HasProxy(proxies, namespace) THEN proxies[namespace] \o arr ELSE arr
  IN /\ Len(merged) <= MaxTargets
     /\ SetNsState(Listen(NsState, namespace))
     /\ proxies' = (namespace :> merged) @@ proxies
     /\ Called([Op("proxy", namespace) EXCEPT !.items = arr])
     /\ UNCHANGED <<allowedOrigins, postMessageAllowedOriginRegex, scopes, calls, build>>

(***************************************************************************)
(* Subscriptions.  A JavaScript value passed as an argument is a record of *)
(* its type, its characters (a string) and its identity (a frame, a        *)
(* window, a function).                                                    *)
(***************************************************************************)
Val(t, str, id) == [t |-> t, s |-> str, id |-> id]
Undef == Val(UNDEFINED, <<>>, "")
Null == Val("null", <<>>, "")
Str(chars) == Val("string", chars, "")
Fn(cb) == Val("function", <<>>, cb)
\* A frame element or a window.
Obj(id) == Val("object", <<>>, id)
\* The arrow function the k-th receiveMessageOnce call made.
Wrapper(k) == Val("wrapper", <<>>, ToString(k))
Truthy(v) == v.t \notin {UNDEFINED, "null"} /\ ~(v.t = "string" /\ v.s = <<>>)

\* frame.contentWindow; a window has no such property.
ContentWindow(id) ==
  CASE id = "frameA" -> "winA"
    [] id = "frameB" -> "winB"
    [] OTHER -> UNDEFINED

\* An argument a callback is invoked with.
Arg(kind, type, detail, source) ==
  [kind |-> kind, type |-> type, detail |-> detail, source |-> source]
\* The arguments of the CommonJS module function.
ModuleArguments ==
  <<Arg("exports", <<>>, "", ""), Arg("require", <<>>, "", ""), Arg("module", <<>>, "", ""),
    Arg("__filename", <<>>, "", ""), Arg("__dirname", <<>>, "", "")>>

\* An object handed to apply as argsArray: an array(-like) with its items,
\* or some other object (self says which event it is).
ArrayLike(items) == [isArrayLike |-> TRUE, items |-> items, self |-> Arg("array", <<>>, "", "")]
EventObject(ev) ==
  [isArrayLike |-> FALSE, items |-> <<>>, self |-> Arg("event", ev.type, ev.detail, ev.source)]

\* Function.prototype.apply(thisArg, argsArray): the arguments are the
\* elements 0..length-1 of argsArray; an event object has no length, so
\* it yields no arguments.
ApplyArguments(argsArray) ==
  IF argsArray.isArrayLike THEN argsArray.items ELSE <<>>

\* The closure receiveMessage(source, type, callback, context) makes and
\* the type it registers it under; once is the callback receiveMessageOnce
\* was given when the call comes from there; api, off and offAgain note
\* which call made the subscription, whether off() was called on its handle
\* and whether it was called on it more than once.
Scoped(source, type, callback, context, once) ==
  LET shift == source.t = "string"
      src == IF shift THEN Null ELSE source
      typ == IF shift THEN source ELSE type
      cb == IF shift THEN type ELSE callback
      ctx0 == IF shift THEN callback ELSE context
      \* context || this, `this` of the module being undefined
      ctx == IF Truthy(ctx0) THEN ctx0 ELSE Undef
  IN [source |-> src, type |-> typ.s, callback |-> cb, context |-> ctx,
      onceCallback |-> once, api |-> "", off |-> FALSE, offAgain |-> FALSE]

Subscribe(source, type, callback, context, once, name) ==
  LET c == Scoped(source, type, callback, context, once)
      k == Len(scopes) + 1
  IN /\ Len(scopes) < MaxListeners
     /\ scopes' = Append(scopes, [c EXCEPT !.api = name])
     /\ calls' = Append(calls, <<>>)
     /\ listeners' = addEventListener(listeners, c.type, k)
     /\ Called([Op(name, c.type) EXCEPT !.items = <<c.source.id, c.callback.t>>])
     /\ UNCHANGED <<regVars, build>>

receiveMessage(source, type, callback, context) ==
  Subscribe(source, type, callback, context, Undef, "receiveMessage")

\* receiveMessageOnce(source, type, callback, context): the wrapper takes
\* the place of the callback argument, whatever that argument is.
receiveMessageOnce(source, type, callback, context) ==
  Subscribe(source, type, Wrapper(Len(scopes) + 1), context, callback, "receiveMessageOnce")

\* listener.off() of the k-th subscription.
off(k) ==
  /\ k \in 1..Len(scopes)
  /\ listeners' = removeEventListener(listeners, scopes[k].type, k)
  /\ scopes' = [scopes EXCEPT ![k].off = TRUE, ![k].offAgain = scopes[k].off \/ @]
  /\ Called(Op("off", scopes[k].type))
  /\ UNCHANGED <<regVars, calls, build>>

\* An invocation of a user's callback: its `this`, its arguments, and
\* whether the subscription's listener was in the listener list just then.
Call(this, args, attached) == [this |-> this, args |-> args, attached |-> attached]
\* A callback that throws when it is invoked.
Throws(callback) == callback.id = "cbThrows"

\* A source test that lets every sender through.
SourceRejected_Never(source, ev) == FALSE

\* source && source !== e.source && source.contentWindow !== e.source
SourceRejected(source, ev) ==
  /\ Truthy(source)
  /\ source.id # ev.source
  /\ ContentWindow(source.id) # ev.source

\* scoped(e) of the k-th subscription: st holds the listeners and calls so far.
\* An exception of a listener is reported by the window and the dispatch
\* goes on (errors).
InvokeScoped(st, k, ev) ==
  LET c == scopes[k]
      \* the arguments `scoped` gives the callback
      given == ApplyArguments(EventObject(ev))
      skip == SourceRejected(c.source, ev)
      attached == IndexOf(st.listeners, [type |-> c.type, fn |-> k]) # 0
      removed == removeEventListener(st.listeners, c.type, k)
      \* the state after the wrapper's callback.apply(this, args) and, when
      \* that returns, listener.off()
      once(args) ==
        IF Throws(c.onceCallback)
          THEN [st EXCEPT !.calls[k] = Append(@, Call(Undef, args, attached)),
                          !.errors = Append(@, "Error")]
          ELSE [st EXCEPT !.calls[k] = Append(@, Call(Undef, args, attached)),
                          !.listeners = removed]
  IN IF skip THEN st
     ELSE IF c.callback.t = "function"
       \* callback.apply(context, e, ...rest)
       THEN IF Throws(c.callback)
              THEN [st EXCEPT !.calls[k] = Append(@, Call(c.context, given, attached)),
                              !.errors = Append(@, "Error")]
              ELSE [st EXCEPT !.calls[k] = Append(@, Call(c.context, given, attached))]
     ELSE IF c.callback.t = "wrapper"
       THEN IF c.onceCallback.t = "function"
              \* callback.apply(this, arguments); listener.off();
              THEN CASE build = "esm" -> [st EXCEPT !.errors = Append(@, "ReferenceError")]
                     [] build = "cjs" -> once(ModuleArguments)
                     \* "es5": `arguments` is the wrapper's own
                     [] OTHER -> once(ApplyArguments(ArrayLike(given)))
              ELSE [st EXCEPT !.listeners = removed]
     ELSE [st EXCEPT !.errors = Append(@, "TypeError")]

RECURSIVE RunListeners(_, _, _)
\* The listeners of the event's type, in the order of the list at dispatch
\* time; one removed meanwhile is not run.
RunListeners(st, snapshot, ev) ==
  IF snapshot = <<>> THEN st
  ELSE LET l == Head(snapshot)
       IN IF l.type = ev.type /\ l.fn # HANDLER /\ IndexOf(st.listeners, l) # 0
            THEN RunListeners(InvokeScoped(st, l.fn, ev), Tail(snapshot), ev)
            ELSE RunListeners(st, Tail(snapshot), ev)

\* global.dispatchEvent(customEvent)
DispatchEvent(ev) ==
  RunListeners([listeners |-> listeners, calls |-> calls, errors |-> <<>>], listeners, ev)

(***************************************************************************)
(* handleReceiveMessage(e), the 'message' listener.                        *)
(***************************************************************************)
\* global.location.origin of the window the module runs in.
LOCATION_ORIGIN == <<"h", "t", "t", "p", ":", "/", "/", "m", "e">>

\* The origin check at the head of handleReceiveMessage.
OriginAccepted(regex, origin) ==
  ~(/\ origin # LOCATION_ORIGIN
    /\ ~RegExpTest(regex, origin)
    /\ origin # NULL_ORIGIN)

\* type.split('.', 2)[1]
ProxyNamespace(type) == Split(type, ".", 2)[2]

RECURSIVE Forward(_, _, _, _)
\* proxyWith.targets.forEach(target => postMessage(target, type, data, options));
\* a throw ends the loop.
Forward(targets, type, data, options) ==
  IF targets = <<>> THEN [thrown |-> "", sends |-> <<>>]
  ELSE LET r == postMessage(Head(targets), type, data, options)
           rest == Forward(Tail(targets), type, data, r.options)
       IN IF r.thrown # "" THEN [thrown |-> r.thrown, sends |-> <<>>]
          ELSE [thrown |-> rest.thrown, sends |-> r.sends \o rest.sends]

\* What handleReceiveMessage(e) does in the current state: the error it
\* throws, the sends of the proxying, the local event it dispatches.
Handle(e) ==
  LET nothing == [thrown |-> "", sends |-> <<>>, events |-> <<>>]
      message == e.data
      type == Prop(message, "type").chars
      namespace == ProxyNamespace(type)
      fwd == IF HasProxy(proxies, namespace)
               THEN Forward(proxies[namespace], type, Prop(message, "data").atom,
                            AsOptions(Prop(message, "options")))
               ELSE [thrown |-> "", sends |-> <<>>]
      customEvent == [type |-> type, detail |-> Prop(message, "data").atom,
                      source |-> e.source]
  IN IF ~OriginAccepted(postMessageAllowedOriginRegex, e.origin) THEN nothing
     ELSE IF ~message.ok THEN [nothing EXCEPT !.thrown = "SyntaxError"]
     ELSE IF ~RegExpTest(messageNamespacesRegex, type) THEN nothing
     ELSE IF fwd.thrown # "" THEN [thrown |-> fwd.thrown, sends |-> fwd.sends, events |-> <<>>]
     ELSE [thrown |-> "", sends |-> fwd.sends, events |-> <<customEvent>>]

\* The transport delivers e: every 'message' listener of `global` runs.
handleReceiveMessage(e) ==
  /\ IndexOf(listeners, MessageListener) # 0
  /\ \E h \in {Handle(e)} :
       \E d \in {IF h.events = <<>>
                   THEN [listeners |-> listeners, calls |-> calls, errors |-> <<>>]
                   ELSE DispatchEvent(h.events[1])} :
         /\ \A k \in 1..Len(d.calls) : Len(d.calls[k]) <= MaxCalls
         /\ inbound' = e
         /\ emitted' = h.events
         /\ sent' = h.sends
         /\ thrown' = h.thrown
         /\ listeners' = d.listeners
         /\ calls' = d.calls
         /\ lastOp' = Op("handleReceiveMessage", e.origin)
         /\ UNCHANGED <<regVars, scopes, history, build>>

\* A call of postMessage by the page itself.
send(target, type, data, options) ==
  LET r == postMessage(target, type, data, options)
      op == [Op("postMessage", type) EXCEPT
               !.items = <<target, data>>, !.options = options, !.after = r.options]
  IN /\ inbound' = NoEvent
     /\ emitted' = <<>>
     /\ sent' = r.sends
     /\ thrown' = r.thrown
     /\ lastOp' = op
     /\ UNCHANGED history
     /\ UNCHANGED <<regVars, subVars, build>>

(***************************************************************************)
(* The inputs of the model.                                                *)
(***************************************************************************)
A_IO == <<"a", ".", "i", "o">>
B_IO == <<"b", ".", "i", "o">>
Hosts == {A_IO, B_IO}
STAR == <<"*">>
Http(host) == <<"h", "t", "t", "p", ":", "/", "/">> \o host
Https(host) == <<"h", "t", "t", "p", "s", ":", "/", "/">> \o host
\* Hosts no call ever registers.
StrangerHosts ==
  {<<"a", ".", "i", "o", ".", "x">>, <<"x", "b", ".", "i", "o">>, <<"a", "x", "i", "o">>,
   <<"c", ".", "i", "o">>}
HttpOrigins == {Http(h) : h \in Hosts \cup StrangerHosts} \cup {Https(h) : h \in Hosts}
InboundOrigins ==
  HttpOrigins \cup {LOCATION_ORIGIN, NULL_ORIGIN, <<"f", "t", "p", ":", "/", "/">> \o A_IO}

DFP == <<"d", "f", "p">>
OTHER_NS == <<"o", "t", "h", "e", "r">>
Namespaces == {DEFAULT_MESSAGE_NAMESPACE, DFP, OTHER_NS}
INIT == <<"i", "n", "i", "t">>
INIT_DFP == INIT \o <<".">> \o DFP
A_DFP_OTHER == <<"a", ".">> \o DFP \o <<".">> \o OTHER_NS
\* "x..postMessage"
X_DEFAULT == <<"x", ".">> \o DEFAULT_MESSAGE_NAMESPACE
Types == {INIT, INIT_DFP, A_DFP_OTHER, X_DEFAULT}
Data == {"D1", "D2"}
Windows == {"winA", "winB"}
CallerOptions == {NoOptions, Options("object", "http://a.io", "e1")}

\* The text an iframe's postMessage(parent, type, data, options) sends.
Sent(type, data, options) == postMessage("parent", type, data, options).sends[1].body
\* A message of another sender that writes its options under `options`.
Foreign(type, data, options) ==
  [ok |-> TRUE,
   members |-> <<Member("type", "chars", type, "", <<>>),
                 Member("data", "atom", <<>>, data, <<>>),
                 Member("options", IF options.def = "object" THEN "obj" ELSE "null", <<>>, "",
                        StringifyOptions(options))>>]
Event(origin, data, source) == [origin |-> origin, data |-> data, source |-> source]

(***************************************************************************)
(* Origin management and the origin check.                                 *)
(***************************************************************************)
OriginEvents ==
  {Event(o, Sent(INIT_DFP, "D1", NoOptions), "winA") : o \in InboundOrigins}
  \cup {Event(Http(A_IO), Malformed, "winA")}

NextOrigin ==
  \/ \E o \in Hosts \cup {STAR} : addPostMessageOrigin(o)
  \/ \E o \in Hosts \cup {ALLOW_WILDCARD} : removePostMessageOrigin(o)
  \/ listen(DFP)
  \/ \E e \in OriginEvents : handleReceiveMessage(e)

SpecOrigin == InitCommonJS /\ [][NextOrigin]_vars

Accepts(origin) == OriginAccepted(postMessageAllowedOriginRegex, origin)

\* C2: every registered origin passes the origin check, and no http/https
\* origin that was never registered (nor is the document's own or "null")
\* passes it unless the wildcard is in the trusted set.
C2_AddedAcceptedOthersRejected ==
  /\ \A h \in Hosts : IndexOf(allowedOrigins, h) # 0 => Accepts(Http(h)) /\ Accepts(Https(h))
  /\ IndexOf(allowedOrigins, ALLOW_WILDCARD) = 0 =>
       \A h \in StrangerHosts : ~Accepts(Http(h))

\* C3: while the wildcard is in the trusted set, the origin check accepts
\* every http/https origin.
C3_WildcardAcceptsAll ==
  IndexOf(allowedOrigins, ALLOW_WILDCARD) # 0 => \A o \in HttpOrigins : Accepts(o)

\* C4: the wildcard, when in the trusted set, is its only member; adding
\* the wildcard leaves exactly the wildcard; adding a new concrete origin
\* leaves the former list without the wildcard, followed by the origin.
C4_WildcardIsSoleMember ==
  /\ [](IndexOf(allowedOrigins, ALLOW_WILDCARD) # 0 => allowedOrigins = <<ALLOW_WILDCARD>>)
  /\ [][lastOp'.op = "addPostMessageOrigin" =>
          IF isWildcard(lastOp'.arg)
            THEN allowedOrigins' = <<ALLOW_WILDCARD>>
          ELSE IF IndexOf(allowedOrigins, lastOp'.arg) = 0
            THEN allowedOrigins' =
                   SelectSeq(allowedOrigins, LAMBDA o : o # ALLOW_WILDCARD)
                   \o <<lastOp'.arg>>
          ELSE allowedOrigins' = allowedOrigins]_vars

\* The wildcard was added while two concrete origins were registered (the
\* matcher is still the one compiled for them).
C4_Witness ==
  /\ lastOp.op = "addPostMessageOrigin"
  /\ isWildcard(lastOp.arg)
  /\ allowedOrigins = <<ALLOW_WILDCARD>>
  /\ postMessageAllowedOriginRegex = compileOriginRegExp(<<A_IO, B_IO>>)

(***************************************************************************)
(* Namespaces, proxies and the dispatch of inbound messages.  The origin   *)
(* list stays the initial one here, so every http origin is trusted.       *)
(***************************************************************************)
NsEvents ==
  {Event(Http(A_IO), Sent(t, "D1", NoOptions), "winC") : t \in Types}
  \cup {Event(Http(A_IO), Sent(INIT_DFP, "D2", Options("object", "http://a.io", "e1")), "winC"),
        Event(Http(A_IO), Foreign(INIT_DFP, "D1", Options("object", "http://a.io", "e1")),
              "winC")}

NextNs ==
  \/ \E ns \in Namespaces : listen(ns)
  \/ \E ns \in Namespaces : stopListening(ns)
  \/ \E ns \in {DFP, OTHER_NS} :
       \/ \E w \in Windows : proxy(ns, <<w>>, FALSE)
       \/ \E w \in Windows : proxy(ns, <<w>>, TRUE)
       \/ proxy(ns, <<"winA", "winB">>, TRUE)
  \/ \E e \in NsEvents : handleReceiveMessage(e)

SpecNs == InitCommonJS /\ [][NextNs]_vars

EndsWith(str, suffix) ==
  Len(str) >= Len(suffix) /\ SubSeq(str, Len(str) - Len(suffix) + 1, Len(str)) = suffix
\* The type of the message delivered last.
InboundType == Prop(inbound.data, "type").chars
Handled == lastOp.op = "handleReceiveMessage"
\* The last delivery passed the origin check, parsed, and its type is in
\* an active namespace.
AcceptedInbound ==
  /\ Handled
  /\ Accepts(inbound.origin)
  /\ inbound.data.ok
  /\ \E i \in 1..Len(messageNamespaces) :
       EndsWith(InboundType, <<".">> \o messageNamespaces[i])
ListenThenStop == history = <<Op("listen", DFP), Op("stopListening", DFP)>>

\* C1 as stated: from the initial state, listen("dfp") then
\* stopListening("dfp") leaves the namespace set empty, the listening flag
\* false and the 'message' handler detached, and no delivery afterwards
\* emits a local event.
C1_ListenStopLeavesNothing ==
  ListenThenStop =>
    /\ messageNamespaces = <<>>
    /\ ~listening
    /\ IndexOf(listeners, MessageListener) = 0
    /\ emitted = <<>>

\* C1, amended: from the initial state, listen("dfp") then
\* stopListening("dfp") leaves the default namespace as the only member of
\* the namespace set, the listening flag true and the 'message' handler
\* attached; a delivery afterwards emits no local event of a type ending
\* with ".dfp", and does emit the event of a well-formed message of a
\* trusted origin whose type the default pattern matches.
C1_ListenStopLeavesDefault ==
  ListenThenStop =>
    /\ messageNamespaces = <<DEFAULT_MESSAGE_NAMESPACE>>
    /\ listening
    /\ IndexOf(listeners, MessageListener) # 0
    /\ \A i \in 1..Len(emitted) : ~EndsWith(emitted[i].type, <<".">> \o DFP)
    /\ (Handled /\ inbound.data.ok /\ InboundType = X_DEFAULT) => Len(emitted) = 1

\* After listen("dfp") and stopListening("dfp") a message of the default
\* pattern was delivered and emitted.
C1_Witness ==
  /\ ListenThenStop
  /\ Handled
  /\ Len(emitted) = 1
  /\ emitted[1].type = X_DEFAULT

\* C6: with the default namespace active, a delivered message of a trusted
\* origin whose type postMessage made from a bare event name is emitted as
\* a local event; and the namespace matcher accepts a type exactly when it
\* ends with "." and an active namespace name.
C6_DefaultNamespaceDispatched ==
  /\ (/\ Handled
      /\ Accepts(inbound.origin)
      /\ inbound.data.ok
      /\ InboundType = NormalizeType(INIT)
      /\ IndexOf(messageNamespaces, DEFAULT_MESSAGE_NAMESPACE) # 0)
     => (Len(emitted) = 1 /\ emitted[1].type = InboundType)
  /\ listening =>
       \A t \in {NormalizeType(x) : x \in Types} :
         RegExpTest(messageNamespacesRegex, t) <=>
           \E i \in 1..Len(messageNamespaces) : EndsWith(t, <<".">> \o messageNamespaces[i])

\* C9: a proxy call keeps every destination registered before it, and an
\* accepted delivery on a namespace is sent on to every destination
\* registered for that namespace.
C9_ProxyAdditive ==
  /\ [][\A ns \in DOMAIN proxies :
          /\ ns \in DOMAIN proxies'
          /\ \A i \in 1..Len(proxies[ns]) : proxies'[ns][i] = proxies[ns][i]]_vars
  /\ [](AcceptedInbound =>
          \A ns \in DOMAIN proxies :
            EndsWith(InboundType, <<".">> \o ns) =>
              \A i \in 1..Len(proxies[ns]) :
                \E j \in 1..Len(sent) :
                  /\ sent[j].target = proxies[ns][i]
                  /\ Prop(sent[j].body, "type").chars = InboundType
                  /\ Prop(sent[j].body, "data") = Prop(inbound.data, "data"))

(***************************************************************************)
(* postMessage called with every combination of a few arguments.           *)
(***************************************************************************)
\* "init." : a dot with nothing after it
INIT_DOT == INIT \o <<".">>
SendTypes == Types \cup {INIT_DOT, DFP}
SendData == Data \cup {UNDEFINED}
SendOptions ==
  CallerOptions \cup {EmptyObject, Options("object", "*", UNDEFINED),
                      Options("object", UNDEFINED, "e1"), Options("null", UNDEFINED, UNDEFINED)}

NextPost ==
  \E type \in SendTypes, data \in SendData, options \in SendOptions :
    send("winA", type, data, options)

SpecPost == InitCommonJS /\ [][NextPost]_vars

\* Does the type carry a namespace suffix: a "." with something after it?
HasSuffix(type) == \E i \in 1..(Len(type) - 1) : type[i] = "."
Posted == lastOp.op = "postMessage" /\ Len(sent) = 1
\* The keys of a JSON text, in order.
Keys(text) == [i \in 1..Len(text.members) |-> text.members[i].key]

\* C5: the envelope postMessage sends has the caller's type followed by
\* ".postMessage" when that type has no namespace suffix, and the caller's
\* type itself when it has one.
C5_DefaultNamespaceApplied ==
  Posted =>
    Prop(sent[1].body, "type").chars =
      IF HasSuffix(lastOp.arg) THEN lastOp.arg ELSE lastOp.arg \o DEFAULT_MESSAGE_NAMESPACE

\* postMessage was called with the bare type "init".
C5_Witness ==
  /\ Posted
  /\ lastOp.arg = INIT
  /\ Prop(sent[1].body, "type").chars = INIT \o DEFAULT_MESSAGE_NAMESPACE

\* C10: the envelope postMessage serializes has exactly the fields type,
\* data and options, options.targetOrigin being set, so that the dispatcher
\* reads the sender's options under `options`.
C10_EnvelopeFields ==
  (Posted /\ lastOp.options.def # "null" /\ Prop(sent[1].body, "data").kind # UNDEFINED) =>
    /\ Keys(sent[1].body) = <<"type", "data", "options">>
    /\ AsOptions(Prop(sent[1].body, "options")) = lastOp.after
    /\ lastOp.after.targetOrigin # UNDEFINED

(***************************************************************************)
(* Subscriptions and the delivery of local events to them.                 *)
(***************************************************************************)
CB == Fn("cb")
O_DFP == <<"o", ".">> \o DFP
SubEvents ==
  {Event(Http(A_IO), Sent(INIT_DFP, d, NoOptions), w) : d \in Data, w \in {"winA", "winC"}}
  \cup {Event(Http(A_IO), Sent(O_DFP, "D1", NoOptions), "winA")}

NextSub ==
  \/ listen(DFP)
  \/ receiveMessage(Str(INIT_DFP), CB, Undef, Undef)
  \/ receiveMessage(Obj("frameA"), Str(INIT_DFP), CB, Undef)
  \/ receiveMessageOnce(Str(INIT_DFP), CB, Undef, Undef)
  \/ receiveMessageOnce(Obj("frameA"), Str(INIT_DFP), CB, Undef)
  \/ \E k \in 1..MaxListeners : off(k)
  \/ \E e \in SubEvents : handleReceiveMessage(e)

SpecSub == Init /\ [][NextSub]_vars

\* The k-th subscription was made by receiveMessageOnce(type, callback).
IsOnceOfType(k) == scopes[k].api = "receiveMessageOnce" /\ scopes[k].source = Null
\* The step delivers a message whose local event the k-th subscription's
\* type and source select.
MatchingDispatch(k) ==
  /\ lastOp'.op = "handleReceiveMessage"
  /\ Len(emitted') = 1
  /\ emitted'[1].type = scopes[k].type
  /\ \/ ~Truthy(scopes[k].source)
     \/ scopes[k].source.id = emitted'[1].source
     \/ ContentWindow(scopes[k].source.id) = emitted'[1].source

\* C7: the callback of a receiveMessageOnce(type, cb) subscription is
\* invoked by the first matching message dispatched and by no later one,
\* and is never invoked once off() was called before any invocation.
C7_OnceInvokedOnce ==
  /\ [](\A k \in 1..Len(scopes) : IsOnceOfType(k) => Len(calls[k]) <= 1)
  /\ [][\A k \in 1..Len(scopes) :
          IsOnceOfType(k) =>
            /\ (MatchingDispatch(k) /\ ~scopes[k].off /\ calls[k] = <<>>)
                 => Len(calls'[k]) = 1
            /\ (scopes[k].off /\ calls[k] = <<>>) => calls'[k] = <<>>]_vars

ReadmeSetup ==
  history = <<Op("listen", DFP),
              [Op("receiveMessageOnce", INIT_DFP) EXCEPT !.items = <<"", "function">>]>>

\* C8: after listen("dfp") and receiveMessageOnce("init.dfp", cb), the
\* delivery of what postMessage(parent, "init.dfp", D) sent from a trusted
\* origin invokes cb once, with the event that carries D and the sender's
\* window.
C8_EndToEnd ==
  [][(/\ ReadmeSetup
      /\ calls[1] = <<>>
      /\ lastOp'.op = "handleReceiveMessage"
      /\ \E d \in Data : inbound'.data = Sent(INIT_DFP, d, NoOptions))
     => /\ Len(calls'[1]) = 1
        /\ calls'[1][1].args =
             <<Arg("event", INIT_DFP, Prop(inbound'.data, "data").atom, inbound'.source)>>]_vars

(***************************************************************************)
(* Subscriptions made with a bare event name.                              *)
(***************************************************************************)
\* "x." : a dot with nothing after it, which RE_HAS_NAMESPACE does not match
X_DOT == <<"x", ".">>
BareTypes == {INIT, X_DOT}
\* What postMessage(parent, E, d) sends for a bare E, from a trusted origin.
BareEvents ==
  {Event(Http(A_IO), Sent(t, d, NoOptions), "winA") : t \in BareTypes, d \in Data}

NextBare ==
  \/ listen(DFP)
  \/ \E t \in BareTypes : receiveMessage(Str(t), CB, Undef, Undef)
  \/ \E t \in BareTypes : receiveMessage(Obj("frameA"), Str(t), CB, Undef)
  \/ \E t \in BareTypes : receiveMessageOnce(Str(t), CB, Undef, Undef)
  \/ \E k \in 1..MaxListeners : off(k)
  \/ \E e \in BareEvents : handleReceiveMessage(e)

SpecBare == Init /\ [][NextBare]_vars

\* C11: a subscription made by receiveMessage or receiveMessageOnce with a
\* type that has no namespace suffix is registered under that type followed
\* by ".postMessage"; and while a receiveMessage(E, cb) subscription with a
\* bare E is not cancelled, the delivery of what postMessage(target, E, d)
\* sent from a trusted origin invokes its callback.
C11_BareTypeSubscribed ==
  /\ []((lastOp.op \in {"receiveMessage", "receiveMessageOnce"} /\ ~HasSuffix(lastOp.arg))
        => IndexOf(listeners, [type |-> lastOp.arg \o DEFAULT_MESSAGE_NAMESPACE,
                               fn |-> Len(scopes)]) # 0)
  /\ [][\A k \in 1..Len(scopes) :
          (/\ scopes[k].api = "receiveMessage"
           /\ scopes[k].source = Null
           /\ ~HasSuffix(scopes[k].type)
           /\ ~scopes[k].off
           /\ lastOp'.op = "handleReceiveMessage"
           /\ Accepts(inbound'.origin)
           /\ \E d \in Data : inbound'.data = Sent(scopes[k].type, d, NoOptions))
          => Len(calls'[k]) = Len(calls[k]) + 1]_vars

(***************************************************************************)
(* receiveMessage subscriptions with and without a source, their           *)
(* cancellation, and the delivery of local events to them.                 *)
(***************************************************************************)
FilterEvents ==
  {Event(Http(A_IO), Sent(INIT_DFP, "D1", NoOptions), w) : w \in {"winA", "winC"}}
  \cup {Event(Http(A_IO), Sent(O_DFP, "D1", NoOptions), "winA")}

NextFilter ==
  \/ listen(DFP)
  \/ receiveMessage(Str(INIT_DFP), CB, Undef, Undef)
  \/ \E f \in {"frameA", "winA"} : receiveMessage(Obj(f), Str(INIT_DFP), CB, Undef)
  \/ \E k \in 1..MaxListeners : off(k)
  \/ \E e \in FilterEvents : handleReceiveMessage(e)

SpecFilter == InitCommonJS /\ [][NextFilter]_vars

\* The frames of the page and the window each one holds.
FrameWindows == {<<"frameA", "winA">>, <<"frameB", "winB">>}
\* The senders a subscription made with the source `id` accepts: the
\* source itself and, when it is a frame, its content window.
SendersOf(id) == {id} \cup {p[2] : p \in {q \in FrameWindows : q[1] = id}}
\* The step dispatches one local event of the type of the k-th subscription.
DispatchOfType(k) ==
  /\ lastOp'.op = "handleReceiveMessage"
  /\ Len(emitted') = 1
  /\ emitted'[1].type = scopes[k].type

\* C12: the callback of a subscription made with a source is invoked only
\* in a step that dispatches an event of its type whose sender is the
\* source itself or the source's content window; the callback of a
\* receiveMessage subscription made without a source, while not cancelled,
\* is invoked by every dispatched event of its type, whoever sent it.
C12_SourceFiltering ==
  [][\A k \in 1..Len(scopes) :
       /\ (Truthy(scopes[k].source) /\ calls'[k] # calls[k])
            => (DispatchOfType(k) /\ emitted'[1].source \in SendersOf(scopes[k].source.id))
       /\ (/\ scopes[k].api = "receiveMessage"
           /\ scopes[k].source = Null
           /\ ~scopes[k].off
           /\ DispatchOfType(k))
            => Len(calls'[k]) = Len(calls[k]) + 1]_vars

\* A subscription with the source frameA was invoked for its frame's
\* window, one with the window itself as source too, and the event of the
\* same type delivered last, from another window, invoked neither.
C12_Witness ==
  /\ Len(scopes) = 2
  /\ scopes[1].api = "receiveMessage" /\ scopes[1].source = Obj("frameA")
  /\ scopes[2].api = "receiveMessage" /\ scopes[2].source = Obj("winA")
  /\ ~scopes[1].off /\ ~scopes[2].off
  /\ Handled
  /\ Len(emitted) = 1
  /\ emitted[1].type = scopes[1].type
  /\ emitted[1].source = "winC"
  /\ Len(calls[1]) = 1
  /\ Len(calls[2]) = 1

(***************************************************************************)
(* Deliveries the dispatcher drops: origins and namespaces change, a proxy *)
(* is registered, and every body arrives from every kind of origin.        *)
(***************************************************************************)
\* "a.ypostMessage": the namespace "ypostMessage" is never listened to
A_YPOST == <<"a", ".", "y">> \o Tail(DEFAULT_MESSAGE_NAMESPACE)
RejectOrigins ==
  {Http(A_IO), Http(<<"c", ".", "i", "o">>), <<"f", "t", "p", ":", "/", "/">> \o A_IO,
   LOCATION_ORIGIN, NULL_ORIGIN}
RejectBodies ==
  {Malformed} \cup {Sent(t, "D1", NoOptions) : t \in {INIT_DFP, A_DFP_OTHER, A_YPOST}}
RejectEvents == {Event(o, b, "winC") : o \in RejectOrigins, b \in RejectBodies}

NextReject ==
  \/ addPostMessageOrigin(A_IO)
  \/ listen(OTHER_NS)
  \/ proxy(DFP, <<"winA">>, TRUE)
  \/ \E e \in RejectEvents : handleReceiveMessage(e)

SpecReject == InitCommonJS /\ [][NextReject]_vars

\* The last operation emitted nothing, sent nothing and threw nothing.
Silent == emitted = <<>> /\ sent = <<>> /\ thrown = ""
\* The type ends with "." and the name of an active namespace.
InActiveNamespace(type) ==
  \E i \in 1..Len(messageNamespaces) : EndsWith(type, <<".">> \o messageNamespaces[i])

\* C13: the delivery of a message whose origin is not the document's own,
\* not "null" and not matched by the origin matcher emits no local event,
\* forwards nothing and throws nothing, whatever its body; so does the
\* delivery of a well-formed message of an accepted origin whose type is
\* in no active namespace.
C13_SilentRejection ==
  Handled =>
    /\ ~Accepts(inbound.origin) => Silent
    /\ (Accepts(inbound.origin) /\ inbound.data.ok /\ ~InActiveNamespace(InboundType))
         => Silent

\* C14: once off() was called on the handle of a receiveMessage
\* subscription, no later step invokes its callback; and an off() on a
\* handle already cancelled throws nothing and leaves the listener list,
\* hence every other subscription, as it was.
C14_OffFinalIdempotent ==
  /\ [][\A k \in 1..Len(scopes) :
          (scopes[k].api = "receiveMessage" /\ scopes[k].off) => calls'[k] = calls[k]]_vars
  /\ [][(/\ lastOp'.op = "off"
         /\ \A k \in 1..Len(scopes) : scopes'[k].off = scopes[k].off)
        => (listeners' = listeners /\ calls' = calls /\ thrown' = "")]_vars

\* off() was called more than once on the first subscription, which was
\* never invoked; the event delivered last is of its type and invoked the
\* second subscription, which is not cancelled.
C14_Witness ==
  /\ Len(scopes) = 2
  /\ scopes[1].api = "receiveMessage" /\ scopes[1].source = Null
  /\ scopes[1].offAgain
  /\ ~scopes[2].off
  /\ Handled
  /\ Len(emitted) = 1
  /\ emitted[1].type = scopes[1].type
  /\ calls[1] = <<>>
  /\ Len(calls[2]) = 1

C16_ListeningHasNamespace == listening => messageNamespaces # <<>>

\* After listen("dfp") the default namespace was removed: the flag is still
\* true and one namespace is left.
C16_Witness ==
  /\ history = <<Op("listen", DFP), Op("stopListening", DEFAULT_MESSAGE_NAMESPACE)>>
  /\ lastOp.op = "stopListening"
  /\ listening
  /\ messageNamespaces = <<DFP>>

\* How many times handleReceiveMessage is in the listener list.
Attached == Cardinality({i \in 1..Len(listeners) : listeners[i] = MessageListener})

\* C17: the listening flag is true exactly when handleReceiveMessage is a
\* 'message' listener of the window, and it is in the listener list at
\* most once.
C17_ListeningIffAttached ==
  /\ listening <=> Attached >= 1
  /\ Attached <= 1

\* listen was called a second time while the handler was attached.
C17_Witness ==
  /\ history = <<Op("listen", DFP), Op("listen", OTHER_NS)>>
  /\ listening
  /\ Attached = 1

(***************************************************************************)
(* receiveMessageOnce with callbacks that return and callbacks that throw. *)
(***************************************************************************)
CB_THROWS == Fn("cbThrows")
Callbacks == {CB, CB_THROWS}
OnceEvents == {Event(Http(A_IO), Sent(INIT_DFP, d, NoOptions), "winA") : d \in Data}

NextOnce ==
  \/ listen(DFP)
  \/ \E cb \in Callbacks : receiveMessageOnce(Obj("frameA"), Str(INIT_DFP), cb, Undef)
  \/ \E cb \in Callbacks : receiveMessageOnce(Str(INIT_DFP), cb, Undef, Undef)
  \/ \E k \in 1..MaxListeners : off(k)
  \/ \E e \in OnceEvents : handleReceiveMessage(e)

SpecOnce == Init /\ [][NextOnce]_vars

\* C18: whenever the callback given to receiveMessageOnce is invoked, the
\* subscription's listener is no longer in the listener list; hence the
\* callback is invoked at most once, also when it throws.
C18_DetachedBeforeCallback ==
  \A k \in 1..Len(scopes) :
    scopes[k].api = "receiveMessageOnce" =>
      /\ \A i \in 1..Len(calls[k]) : ~calls[k][i].attached
      /\ Len(calls[k]) <= 1

(***************************************************************************)
(* The destinations of a proxied namespace, over SpecNs.                   *)
(***************************************************************************)
\* How many of the sends of the last operation went to the window w.
SendsTo(w) == Cardinality({j \in 1..Len(sent) : sent[j].target = w})

\* C19: the delivery of a message is forwarded to any one frame at most
\* once, however many times that frame was registered for the namespace.
C19_DestinationsFormSet ==
  Handled => \A w \in Windows : SendsTo(w) <= 1

\* C20: every send the delivery of a message makes goes to a frame
\* registered by proxy(N, ...) for a namespace N such that the type of the
\* message ends with "." and N.
C20_ProxyNamespaceAgrees ==
  Handled =>
    \A j \in 1..Len(sent) :
      \E ns \in DOMAIN proxies :
        /\ EndsWith(InboundType, <<".">> \o ns)
        /\ \E i \in 1..Len(proxies[ns]) : proxies[ns][i] = sent[j].target

====
